---- MODULE Spec2Model ----
(***************************************************************************)
(* A model of FlowAnalyzer: the HTTP reconstructor (header/body split,     *)
(* chunked decoding, gzip), the cached ingest of the dissection tool's     *)
(* output into the SQLite store, the pairing query and the flow splitter.  *)
(*                                                                         *)
(* Byte strings are sequences of byte values 0..255.  Indices are kept     *)
(* 0-based as in the Python source; PySlice, PyFind and PyAt give Python's *)
(* slicing and bytes.find, negative indices included.                       *)
(***************************************************************************)
EXTENDS Integers, Sequences, FiniteSets, TLC

\* file_data[cursor] in (13, 10)
CR == 13
LF == 10
\* b"\x1f\x8b", the gzip magic number
GZ1 == 31
GZ2 == 139

Min(a, b) == IF a < b THEN a ELSE b
Max(a, b) == IF a > b THEN a ELSE b

(***************************************************************************)
(* Python's bytes primitives.                                              *)
(***************************************************************************)
\* A slice bound as Python normalises it: negative counts from the end,
\* and the result is clamped to 0..len.
PyBound(n, i) == IF i < 0 THEN Max(i + n, 0) ELSE Min(i, n)

\* s[a:b]
PySlice(s, a, b) ==
    LET lo == PyBound(Len(s), a)
        hi == PyBound(Len(s), b)
    IN  IF lo >= hi THEN <<>> ELSE SubSeq(s, lo + 1, hi)

\* s[a:]
PyFrom(s, a) == PySlice(s, a, Len(s))

\* Whether sub occurs in s at 0-based offset i.
OccursAt(s, sub, i) ==
    /\ i >= 0
    /\ i + Len(sub) <= Len(s)
    /\ \A k \in 1..Len(sub) : s[i + k] = sub[k]

\* s.find(sub, start): the lowest offset >= start where sub occurs, or -1.
PyFind(s, sub, start) ==
    LET from == PyBound(Len(s), start)
        hits == {i \in from..(Len(s) - Len(sub)) : OccursAt(s, sub, i)}
    IN  IF hits = {} THEN -1 ELSE CHOOSE i \in hits : \A j \in hits : i <= j

\* ASCII whitespace, what bytes.strip() removes.
IsSpace(b) == b \in {32, 9, 10, 11, 12, 13}

RECURSIVE LStrip(_)
LStrip(s) == IF s # <<>> /\ IsSpace(s[1]) THEN LStrip(Tail(s)) ELSE s

RECURSIVE RStrip(_)
RStrip(s) ==
    IF s # <<>> /\ IsSpace(s[Len(s)]) THEN RStrip(SubSeq(s, 1, Len(s) - 1)) ELSE s

\* s.strip()
Strip(s) == RStrip(LStrip(s))

(***************************************************************************)
(* int(size_line, 16): an optional sign, an optional 0x/0X prefix, then    *)
(* hexadecimal digits, single underscores allowed between digits (and      *)
(* right after the prefix).  Anything else raises ValueError.              *)
(***************************************************************************)
IsHexDigit(b) == b \in (48..57) \cup (97..102) \cup (65..70)

HexVal(b) == IF b \in 48..57 THEN b - 48
             ELSE IF b \in 97..102 THEN b - 87
             ELSE b - 55

\* The digits part: non-empty, hex digits and '_' only, no '_' at the end,
\* no '_' after another '_', a leading '_' only after a prefix.
DigitsOk(d, prefixed) ==
    /\ d # <<>>
    /\ \A i \in 1..Len(d) : IsHexDigit(d[i]) \/ d[i] = 95
    /\ d[Len(d)] # 95
    /\ \A i \in 1..(Len(d) - 1) : ~(d[i] = 95 /\ d[i + 1] = 95)
    /\ (d[1] = 95 => prefixed)

RECURSIVE DigitsVal(_, _)
DigitsVal(d, acc) ==
    IF d = <<>> THEN acc
    ELSE IF d[1] = 95 THEN DigitsVal(Tail(d), acc)
    ELSE DigitsVal(Tail(d), acc * 16 + HexVal(d[1]))

\* [ok |-> FALSE] for ValueError, else [ok |-> TRUE, val |-> the integer]
ParseInt16(s) ==
    LET signed   == s # <<>> /\ s[1] \in {43, 45}
        sgn      == IF signed /\ s[1] = 45 THEN -1 ELSE 1
        rest     == IF signed THEN Tail(s) ELSE s
        prefixed == Len(rest) >= 2 /\ rest[1] = 48 /\ rest[2] \in {120, 88}
        digits   == IF prefixed THEN SubSeq(rest, 3, Len(rest)) ELSE rest
    IN  IF DigitsOk(digits, prefixed)
        THEN [ok |-> TRUE, val |-> sgn * DigitsVal(digits, 0)]
        ELSE [ok |-> FALSE, val |-> 0]

(***************************************************************************)
(* split_http_headers                                                      *)
(***************************************************************************)
\* The split looking for LF LF before CRLF CRLF.
SplitAtLFFirst(file_data, headerEnd, lfEnd) ==
    IF lfEnd # -1
    THEN <<PySlice(file_data, 0, lfEnd + 2), PyFrom(file_data, lfEnd + 2)>>
    ELSE IF headerEnd # -1
    THEN <<PySlice(file_data, 0, headerEnd + 4), PyFrom(file_data, headerEnd + 4)>>
    ELSE <<(<<>>), file_data>>

\* headerEnd is file_data.find(b"\r\n\r\n"), lfEnd is file_data.find(b"\n\n").
SplitAt(file_data, headerEnd, lfEnd) ==
    IF headerEnd # -1
    THEN <<PySlice(file_data, 0, headerEnd + 4), PyFrom(file_data, headerEnd + 4)>>
    ELSE IF lfEnd # -1
    THEN <<PySlice(file_data, 0, lfEnd + 2), PyFrom(file_data, lfEnd + 2)>>
    ELSE <<(<<>>), file_data>>

\* <<header, body>>
split_http_headers(file_data) ==
    SplitAt(file_data, PyFind(file_data, <<CR, LF, CR, LF>>, 0),
            PyFind(file_data, <<LF, LF>>, 0))

(***************************************************************************)
(* dechunk_http_response.  DechunkStep is one iteration of the while loop  *)
(* entered with cursor < total_len: it raises, leaves the loop (break), or *)
(* goes round again with a new cursor; piece is what it appends to chunks. *)
(***************************************************************************)
\* while cursor < total_len and file_data[cursor] in (13, 10): cursor += 1
\* file_data[cursor] raises IndexError for cursor < -total_len; -1 - total_len
\* stands for that.
RECURSIVE SkipCRLF(_, _)
SkipCRLF(file_data, cursor) ==
    LET total_len == Len(file_data) IN
    IF cursor >= total_len THEN cursor
    ELSE IF cursor < -total_len THEN -1 - total_len
    ELSE LET b == file_data[(IF cursor < 0 THEN cursor + total_len ELSE cursor) + 1]
         IN  IF b \in {CR, LF} THEN SkipCRLF(file_data, cursor + 1) ELSE cursor

Raise(cursor) == [tag |-> "raise", cursor |-> cursor, piece |-> <<>>]
Break(cursor, piece) == [tag |-> "break", cursor |-> cursor, piece |-> piece]
GoOn(cursor, piece) == [tag |-> "next", cursor |-> cursor, piece |-> piece]

\* The chunk is whole: chunks.append(file_data[data_start:data_end]),
\* cursor = data_end, and the skip of CR and LF, which ends at cursor after.
DechunkAdvance(file_data, data_start, data_end, after) ==
    IF after = -1 - Len(file_data) THEN Raise(data_end)
    ELSE GoOn(after, PySlice(file_data, data_start, data_end))

\* From "chunk_size = int(size_line, 16)" on; parsed is that call's result.
DechunkChunk(file_data, cursor, data_start, parsed) ==
    IF ~parsed.ok THEN Raise(cursor)
    ELSE IF parsed.val = 0 THEN Break(cursor, <<>>)
    ELSE IF data_start > Len(file_data) THEN Break(cursor, <<>>)
    ELSE IF data_start + parsed.val > Len(file_data)
    THEN Break(cursor, PyFrom(file_data, data_start))
    ELSE DechunkAdvance(file_data, data_start, data_start + parsed.val,
                        SkipCRLF(file_data, data_start + parsed.val))

\* The chunk data taken to start at the newline, not after it.
DechunkSizeLineAtNewline(file_data, cursor, newline_idx, size_line) ==
    IF size_line = <<>> THEN GoOn(newline_idx + 1, <<>>)
    ELSE DechunkChunk(file_data, cursor, newline_idx, ParseInt16(size_line))

\* From "if not size_line" on.
DechunkSizeLine(file_data, cursor, newline_idx, size_line) ==
    IF size_line = <<>> THEN GoOn(newline_idx + 1, <<>>)
    ELSE DechunkChunk(file_data, cursor, newline_idx + 1, ParseInt16(size_line))

\* From "if newline_idx == -1" on.
DechunkLine(file_data, cursor, newline_idx) ==
    IF newline_idx = -1 THEN Raise(cursor)
    ELSE DechunkSizeLine(file_data, cursor, newline_idx,
                         Strip(PySlice(file_data, cursor, newline_idx)))

DechunkStep(file_data, cursor) ==
    DechunkLine(file_data, cursor, PyFind(file_data, <<LF>>, cursor))

\* The loop run to its end.  An iteration depends on the cursor alone, so a
\* cursor seen before means the loop never ends: status "diverge".
RECURSIVE DechunkLoop(_, _, _, _)
RECURSIVE DechunkAfter(_, _, _, _, _)
DechunkLoop(file_data, cursor, chunks, seen) ==
    IF cursor >= Len(file_data) THEN [status |-> "ok", out |-> chunks]
    ELSE IF cursor \in seen THEN [status |-> "diverge", out |-> chunks]
    ELSE DechunkAfter(file_data, cursor, chunks, seen, DechunkStep(file_data, cursor))

\* st is what the iteration at cursor did.
DechunkAfter(file_data, cursor, chunks, seen, st) ==
    IF st.tag = "raise" THEN [status |-> "raise", out |-> <<>>]
    ELSE IF st.tag = "break" THEN [status |-> "ok", out |-> chunks \o st.piece]
    ELSE DechunkLoop(file_data, st.cursor, chunks \o st.piece, seen \cup {cursor})

dechunk_http_response(file_data) ==
    IF file_data = <<>> THEN [status |-> "ok", out |-> <<>>]
    ELSE DechunkLoop(file_data, 0, <<>>, {})

(***************************************************************************)
(* gzip.decompress, the standard library's, abstracted to a stored format: *)
(* the magic number, the data, and one trailer byte holding the data's     *)
(* length (gzip's ISIZE).  Any other byte string raises.                   *)
(***************************************************************************)
GzipCompress(body) == <<GZ1, GZ2>> \o body \o <<Len(body) % 256>>

StartsWithMagic(b) == Len(b) >= 2 /\ b[1] = GZ1 /\ b[2] = GZ2

GzipDecompress(data) ==
    IF /\ Len(data) >= 3
       /\ StartsWithMagic(data)
       /\ data[Len(data)] = (Len(data) - 3) % 256
    THEN [ok |-> TRUE, out |-> SubSeq(data, 3, Len(data) - 1)]
    ELSE [ok |-> FALSE, out |-> <<>>]

(***************************************************************************)
(* binascii.unhexlify / bytes.fromhex on the tool's hexadecimal text (a    *)
(* sequence of ASCII codes): an odd length or a non-hex character raises.  *)
(***************************************************************************)
HexChar(v) == IF v < 10 THEN 48 + v ELSE 87 + v

RECURSIVE hexlify(_)
hexlify(b) ==
    IF b = <<>> THEN <<>>
    ELSE <<HexChar(b[1] \div 16), HexChar(b[1] % 16)>> \o hexlify(Tail(b))

RECURSIVE HexPairs(_)
HexPairs(t) ==
    IF t = <<>> THEN <<>>
    ELSE <<HexVal(t[1]) * 16 + HexVal(t[2])>> \o HexPairs(Tail(Tail(t)))

unhexlify(text) ==
    IF Len(text) % 2 = 0 /\ \A i \in 1..Len(text) : IsHexDigit(text[i])
    THEN [ok |-> TRUE, out |-> HexPairs(text)]
    ELSE [ok |-> FALSE, out |-> <<>>]

(***************************************************************************)
(* extract_http_file_data: hex decode, header/body split, then chunked     *)
(* decoding and gzip, each under contextlib.suppress(Exception).  status   *)
(* is "diverge" when the chunked-decode loop never returns.                *)
(***************************************************************************)
GunzipBestEffort(body_part) ==
    IF StartsWithMagic(body_part) /\ GzipDecompress(body_part).ok
    THEN GzipDecompress(body_part).out
    ELSE body_part

\* The body replaced by the decoder's output even when the decoder raised.
ExtractBodyAlwaysDechunked(header, body_part, d) ==
    IF d.status = "diverge"
    THEN [status |-> "diverge", header |-> header, file_data |-> <<>>]
    ELSE [status |-> "ok", header |-> header, file_data |-> GunzipBestEffort(d.out)]

\* d is dechunk_http_response(body_part): its result replaces body_part
\* unless it raised.
ExtractBody(header, body_part, d) ==
    IF d.status = "diverge"
    THEN [status |-> "diverge", header |-> header, file_data |-> <<>>]
    ELSE [status |-> "ok", header |-> header,
          file_data |-> GunzipBestEffort(IF d.status = "ok" THEN d.out ELSE body_part)]

\* hb is split_http_headers(raw_bytes).
ExtractSplit(hb) == ExtractBody(hb[1], hb[2], dechunk_http_response(hb[2]))

\* raw is the result of the hex decoding.
ExtractRaw(raw) ==
    IF ~raw.ok THEN [status |-> "ok", header |-> <<>>, file_data |-> <<>>]
    ELSE ExtractSplit(split_http_headers(raw.out))

extract_http_file_data(full_request) ==
    IF full_request = <<>>
    THEN [status |-> "ok", header |-> <<>>, file_data |-> <<>>]
    ELSE ExtractRaw(unhexlify(full_request))

(***************************************************************************)
(* The tool's rows.  A row is what csv.reader yields: a sequence of text   *)
(* fields (sequences of ASCII codes), in the order                         *)
(*   http.response.code, http.request_in, tcp.reassembled.data,            *)
(*   frame.number, tcp.payload, frame.time_epoch, exported_pdu,            *)
(*   http.request.full_uri                                                 *)
(* Field k of the Python list, row[k], is row[k + 1] here.                 *)
(***************************************************************************)
\* int(text): surrounding whitespace, an optional sign, decimal digits with
\* single underscores between them.
DecDigitsOk(d) ==
    /\ d # <<>>
    /\ \A i \in 1..Len(d) : d[i] \in 48..57 \/ d[i] = 95
    /\ d[1] # 95
    /\ d[Len(d)] # 95
    /\ \A i \in 1..(Len(d) - 1) : ~(d[i] = 95 /\ d[i + 1] = 95)

RECURSIVE DecDigitsVal(_, _)
DecDigitsVal(d, acc) ==
    IF d = <<>> THEN acc
    ELSE IF d[1] = 95 THEN DecDigitsVal(Tail(d), acc)
    ELSE DecDigitsVal(Tail(d), acc * 10 + (d[1] - 48))

ParseInt10(text) ==
    LET s      == Strip(text)
        signed == s # <<>> /\ s[1] \in {43, 45}
        sgn    == IF signed /\ s[1] = 45 THEN -1 ELSE 1
        digits == IF signed THEN Tail(s) ELSE s
    IN  IF DecDigitsOk(digits)
        THEN [ok |-> TRUE, val |-> sgn * DecDigitsVal(digits, 0)]
        ELSE [ok |-> FALSE, val |-> 0]

\* float(text) on the timestamps of the model, which are written "N" or
\* "N.d": the value is kept in tenths of a second.  Any other text of the
\* model (the malformed "x") raises ValueError.
ParseFloat(text) ==
    LET dot == PyFind(text, <<46>>, 0)
        ip  == IF dot = -1 THEN text ELSE PySlice(text, 0, dot)
        fp  == IF dot = -1 THEN <<48>> ELSE PyFrom(text, dot + 1)
    IN  IF /\ ip # <<>>
           /\ \A i \in 1..Len(ip) : ip[i] \in 48..57
           /\ Len(fp) = 1
           /\ fp[1] \in 48..57
        THEN [ok |-> TRUE, val |-> DecDigitsVal(ip, 0) * 10 + (fp[1] - 48)]
        ELSE [ok |-> FALSE, val |-> 0]

\* urllib.parse.unquote on ASCII text: %XX becomes the byte XX.
RECURSIVE unquote(_)
unquote(t) ==
    IF t = <<>> THEN <<>>
    ELSE IF t[1] = 37 /\ Len(t) >= 3 /\ IsHexDigit(t[2]) /\ IsHexDigit(t[3])
    THEN <<HexVal(t[2]) * 16 + HexVal(t[3])>> \o unquote(SubSeq(t, 4, Len(t)))
    ELSE <<t[1]>> \o unquote(Tail(t))

\* The fields as parsed: frame is int(row[3]), req_in is int(row[1]),
\* epoch is float(row[5]).
ParsedFields(row, frame, req_in, epoch) ==
    IF ~frame.ok THEN [ok |-> FALSE]
    ELSE IF row[2] # <<>> /\ ~req_in.ok THEN [ok |-> FALSE]
    ELSE IF ~epoch.ok THEN [ok |-> FALSE]
    ELSE [ok           |-> TRUE,
          frame_num    |-> frame.val,
          request_in   |-> IF row[2] # <<>> THEN req_in.val ELSE frame.val,
          time_epoch   |-> epoch.val,
          full_uri     |-> IF row[8] # <<>> THEN unquote(row[8]) ELSE <<>>,
          full_request |-> IF row[3] # <<>> THEN row[3]
                           ELSE IF row[5] # <<>> THEN row[5]
                           ELSE row[7]]

\* FlowAnalyzer.parse_packet_data.  ok is FALSE when it raises (IndexError
\* on a short row, ValueError on a frame number, request_in or timestamp
\* that does not parse).
parse_packet_data(row) ==
    IF Len(row) < 8 THEN [ok |-> FALSE]
    ELSE ParsedFields(row, ParseInt10(row[4]), ParseInt10(row[2]), ParseFloat(row[6]))

(***************************************************************************)
(* Bounds of the model, and the program's constants in the model's units.  *)
(***************************************************************************)
\* Rows the tool emits in one run, at most.
MaxLines == 3
\* Calls of get_json_data in one behaviour, at most.
MaxCalls == 2
\* The capture's mtime takes the values 0..MaxMtime, in ticks of 0.05 s.
MaxMtime == 3
\* The capture's size takes the values 1..MaxSize.
MaxSize == 2

\* BATCH_SIZE = 5000 in the source; 2 here, so that a batch fills within
\* MaxLines rows.
BATCH_SIZE == 2
\* abs(cached_mtime - current_mtime) < 0.1, in ticks of 0.05 s.
MtimeTolerance == 2

Filters == {"http", "tcp"}

VARIABLES
    capture,      \* the capture file: [exists, mtime, size]
    db,           \* the store file as committed: [state, requests, responses, meta]
    txn,          \* the ingest connection's view of the store, uncommitted rows included
    pc,           \* where get_json_data is
    cur_filter,   \* display_filter of the call in progress
    calls,        \* calls made so far
    out,          \* the rows the tool has written to its stdout in this run
    crashed,      \* the tool died before its output was complete
    db_req_rows,  \* buffered request rows
    db_resp_rows, \* buffered response rows
    fault,        \* the exception raised in this call, "none" if none
    built,        \* the last ingest that committed into the store now on disk
    dk_pc,        \* where the chunked-decoding round trip is
    dk_body,      \* the body being chunk-encoded
    dk_rest,      \* the part of it not yet encoded
    dk_data,      \* file_data of dechunk_http_response
    dk_cursor,    \* its cursor
    dk_chunks,    \* its chunks, joined
    ex_pc,        \* where the extraction is
    ex_raw,       \* the payload's bytes
    ex_out,       \* what extract_http_file_data returned for them
    sp_pc,        \* where PcapSplitter.split is
    sp_size,      \* the capture file's size
    sp_chunks,    \* default_chunks of the call
    packets,      \* the packets read from the capture so far
    streams,      \* stream key -> the packets of the stream, in order
    stream_sizes, \* <<key, bytes>> in the dict's insertion order
    sorted_streams, \* what is left of sorted_streams to assign
    buckets,      \* [size, index, keys] in the list's order
    files,        \* the batch files written, in order: the packets of each
    generated_files, \* the return value
    up_store,     \* the requests and responses tables that batches are written to
    up_log        \* the batches written to them so far: [table, rows], in order

ingestVars == <<capture, db, txn, pc, cur_filter, calls, out, crashed,
                db_req_rows, db_resp_rows, fault, built>>

dechunkVars == <<dk_pc, dk_body, dk_rest, dk_data, dk_cursor, dk_chunks>>

extractVars == <<ex_pc, ex_raw, ex_out>>

splitVars == <<sp_pc, sp_size, sp_chunks, packets, streams, stream_sizes,
               sorted_streams, buckets, files, generated_files>>

upsertVars == <<up_store, up_log>>

\* What get_json_data leaves alone.
otherVars == <<dechunkVars, extractVars, splitVars, upsertVars>>

vars == <<ingestVars, dechunkVars, extractVars, splitVars, upsertVars>>

\* ---- texts and rows of the model ----
RECURSIVE Dec(_)
Dec(n) == IF n < 10 THEN <<48 + n>> ELSE Dec(n \div 10) \o <<48 + (n % 10)>>

\* "G\r\n\r\nq": a request with header "G\r\n\r\n" and body "q"
RawReq == <<71, CR, LF, CR, LF, 113>>
\* "H\n\n1\r\nZ\r\n0\r\n\r\n": a response with a chunked body of one chunk "Z"
RawResp == <<72, LF, LF, 49, CR, LF, 90, CR, LF, 48, CR, LF, CR, LF>>
\* "4z": not hexadecimal
BadHex == <<52, 122>>
\* "/%41"
Uri == <<47, 37, 52, 49>>
\* "200"
Code200 == <<50, 48, 48>>
\* "x"
Garbage == <<120>>
\* "N.5"
Epoch(i) == Dec(i) \o <<46, 53>>

MkRow(code, req_in, reass, frame, payload, epoch, pdu, uri) ==
    <<code, req_in, reass, frame, payload, epoch, pdu, uri>>

ReqRow(i)       == MkRow(<<>>, <<>>, hexlify(RawReq), Dec(i), <<>>, Epoch(i), <<>>, Uri)
ReqBadHexRow(i) == MkRow(<<>>, <<>>, <<>>, Dec(i), BadHex, Epoch(i), <<>>, Uri)
RespRow(i, k)   == MkRow(Code200, IF k = 0 THEN <<>> ELSE Dec(k), <<>>, Dec(i),
                         <<>>, Epoch(i), hexlify(RawResp), <<>>)
NoPayloadRow(i) == MkRow(<<>>, <<>>, <<>>, Dec(i), <<>>, Epoch(i), <<>>, Uri)
BadFrameRow(i)  == MkRow(<<>>, <<>>, hexlify(RawReq), Garbage, <<>>, Epoch(i), <<>>, Uri)
BadEpochRow(i)  == MkRow(<<>>, <<>>, hexlify(RawReq), Dec(i), <<>>, Garbage, <<>>, Uri)
ShortRow(i)     == <<(<<>>), <<>>, hexlify(RawReq), Dec(i)>>
BlankRow        == <<>>

MalformedRows(i) == {ShortRow(i), BadFrameRow(i), BadEpochRow(i)}

\* What the tool may write as its i-th row: frame numbers follow the rows,
\* and a response names any frame as its request (or none: k = 0).
Catalog(i) ==
    MalformedRows(i) \cup
    {BlankRow, NoPayloadRow(i), ReqRow(i), ReqBadHexRow(i)} \cup
    {RespRow(i, k) : k \in 0..MaxLines}

\* The tool's output for a filter on the capture of the caching
\* specification: the same rows every time it is run with that filter.
ToolOutput(f) ==
    IF f = "http" THEN <<ReqRow(1), RespRow(2, 1), BadEpochRow(3)>>
    ELSE <<RespRow(1, 0), ReqRow(2)>>

(***************************************************************************)
(* The store.  requests and responses are sets of rows with frame_num as   *)
(* primary key; meta is the meta_info table in rowid order.  A store file  *)
(* is "absent", "empty" (zero bytes), "partial" (not every table created)  *)
(* or "db" (the schema is there).                                          *)
(***************************************************************************)
NoTables == [requests |-> {}, responses |-> {}, meta |-> <<>>]

AbsentStore == [state |-> "absent"] @@ NoTables

NoTxn == [open |-> FALSE] @@ NoTables

\* One execute with the last row in place of executemany with them all.
UpsertLastRow(table, rows) ==
    IF rows = <<>> THEN table
    ELSE {r \in table : r.frame_num # rows[Len(rows)].frame_num}
             \cup {rows[Len(rows)]}

\* INSERT OR REPLACE of the rows, in order.
RECURSIVE Upsert(_, _)
Upsert(table, rows) ==
    IF rows = <<>> THEN table
    ELSE Upsert({r \in table : r.frame_num # rows[1].frame_num} \cup {rows[1]},
                Tail(rows))

\* _is_cache_valid with the tolerance test written "<=".
IsCacheValidInclusive(store, pcap, current_filter) ==
    /\ store.state = "db"
    /\ pcap.exists
    /\ store.meta # <<>>
    /\ store.meta[1].filter = current_filter
    /\ store.meta[1].pcap_size = pcap.size
    /\ store.meta[1].pcap_mtime - pcap.mtime <= MtimeTolerance
    /\ pcap.mtime - store.meta[1].pcap_mtime <= MtimeTolerance

\* _is_cache_valid.  A capture that is gone makes os.path.getmtime raise,
\* and a "partial" store has no meta_info table to read
\* (sqlite3.OperationalError): both are caught and give False.
IsCacheValid(store, pcap, current_filter) ==
    IF store.state \in {"absent", "empty"} THEN FALSE
    ELSE IF ~pcap.exists THEN FALSE
    ELSE IF store.state = "partial" THEN FALSE
    ELSE IF store.meta = <<>> THEN FALSE
    ELSE LET row  == store.meta[1]
             diff == row.pcap_mtime - pcap.mtime
             abs  == IF diff < 0 THEN -diff ELSE diff
         IN  /\ row.filter = current_filter
             /\ row.pcap_size = pcap.size
             /\ abs < MtimeTolerance

(***************************************************************************)
(* get_json_data and _stream_tshark_to_db, step by step.                   *)
(***************************************************************************)
\* Nothing is being decoded, extracted or split.
DechunkIdle ==
    /\ dk_pc = "idle"
    /\ dk_body = <<>>
    /\ dk_rest = <<>>
    /\ dk_data = <<>>
    /\ dk_cursor = 0
    /\ dk_chunks = <<>>

ExtractIdle ==
    /\ ex_pc = "idle"
    /\ ex_raw = <<>>
    /\ ex_out = [status |-> "ok", header |-> <<>>, file_data |-> <<>>]

SplitIdle ==
    /\ sp_pc = "idle"
    /\ sp_size = 0
    /\ sp_chunks = 0
    /\ packets = <<>>
    /\ streams = <<>>
    /\ stream_sizes = <<>>
    /\ sorted_streams = <<>>
    /\ buckets = <<>>
    /\ files = <<>>
    /\ generated_files = <<>>

\* No batch has been written.
UpsertIdle ==
    /\ up_store = [requests |-> {}, responses |-> {}]
    /\ up_log = <<>>

InitIngest ==
    /\ capture = [exists |-> TRUE, mtime |-> 0, size |-> 1]
    /\ db = AbsentStore
    /\ txn = NoTxn
    /\ pc = "idle"
    /\ cur_filter = "http"
    /\ calls = 0
    /\ out = <<>>
    /\ crashed = FALSE
    /\ db_req_rows = <<>>
    /\ db_resp_rows = <<>>
    /\ fault = "none"
    /\ built = [ok |-> FALSE, filter |-> "http", mtime |-> 0, size |-> 0]

Init == InitIngest /\ DechunkIdle /\ ExtractIdle /\ SplitIdle /\ UpsertIdle

AtRest == pc \in {"idle", "returned", "raised"}

\* Between calls the capture file is touched, rewritten, removed or put
\* back.
CaptureChanges ==
    /\ AtRest
    /\ \/ \E m \in 0..MaxMtime : m # capture.mtime /\ capture' = [capture EXCEPT !.mtime = m]
       \/ \E z \in 1..MaxSize : z # capture.size /\ capture' = [capture EXCEPT !.size = z]
       \/ capture' = [capture EXCEPT !.exists = ~@]
    /\ pc' = "idle"
    /\ UNCHANGED <<otherVars, db, txn, cur_filter, calls, out, crashed,
                   db_req_rows, db_resp_rows, fault, built>>

\* get_json_data(file_path, display_filter): the existence check.
Call(f) ==
    /\ AtRest
    /\ calls < MaxCalls
    /\ calls' = calls + 1
    /\ cur_filter' = f
    /\ out' = <<>>
    /\ crashed' = FALSE
    /\ db_req_rows' = <<>>
    /\ db_resp_rows' = <<>>
    /\ IF capture.exists
       THEN pc' = "validate" /\ fault' = "none"
       ELSE pc' = "raised" /\ fault' = "FileNotFoundError"
    /\ UNCHANGED <<otherVars, capture, db, txn, built>>

\* The cache is valid: return db_path.
CacheHit ==
    /\ pc = "validate"
    /\ IsCacheValid(db, capture, cur_filter)
    /\ pc' = "returned"
    /\ UNCHANGED <<otherVars, capture, db, txn, cur_filter, calls, out, crashed,
                   db_req_rows, db_resp_rows, fault, built>>

\* The rebuild entered whatever the check says.
CacheMissAlways ==
    /\ pc = "validate"
    /\ pc' = "remove"
    /\ UNCHANGED <<otherVars, capture, db, txn, cur_filter, calls, out, crashed,
                   db_req_rows, db_resp_rows, fault, built>>

CacheMiss ==
    /\ pc = "validate"
    /\ ~IsCacheValid(db, capture, cur_filter)
    /\ pc' = "remove"
    /\ UNCHANGED <<otherVars, capture, db, txn, cur_filter, calls, out, crashed,
                   db_req_rows, db_resp_rows, fault, built>>

\* if os.path.exists(db_path): os.remove(db_path)
RemoveOld ==
    /\ pc = "remove"
    /\ db' = AbsentStore
    /\ built' = [built EXCEPT !.ok = FALSE]
    /\ pc' = "schema"
    /\ UNCHANGED <<otherVars, capture, txn, cur_filter, calls, out, crashed,
                   db_req_rows, db_resp_rows, fault>>

\* os.remove raises (the file is in use): outside any try, so the caller
\* gets the error and the old store stays.
RemoveFails ==
    /\ pc = "remove"
    /\ db.state # "absent"
    /\ pc' = "raised"
    /\ fault' = "remove"
    /\ UNCHANGED <<otherVars, capture, db, txn, cur_filter, calls, out, crashed,
                   db_req_rows, db_resp_rows, built>>

\* The three CREATE TABLE statements and the commit.
CreateSchema ==
    /\ pc = "schema"
    /\ db' = [state |-> "db"] @@ NoTables
    /\ pc' = "popen"
    /\ UNCHANGED <<otherVars, capture, txn, cur_filter, calls, out, crashed,
                   db_req_rows, db_resp_rows, fault, built>>

\* A CREATE TABLE fails: raised to the caller, outside any try.
SchemaFails ==
    /\ pc = "schema"
    /\ \E st \in {"empty", "partial"} : db' = [state |-> st] @@ NoTables
    /\ pc' = "raised"
    /\ fault' = "schema"
    /\ UNCHANGED <<otherVars, capture, txn, cur_filter, calls, out, crashed,
                   db_req_rows, db_resp_rows, built>>

\* subprocess.Popen, then the csv reader and the second connection.
Popen ==
    /\ pc = "popen"
    /\ txn' = [open |-> TRUE, requests |-> db.requests,
               responses |-> db.responses, meta |-> db.meta]
    /\ pc' = "stream"
    /\ UNCHANGED <<otherVars, capture, db, cur_filter, calls, out, crashed,
                   db_req_rows, db_resp_rows, fault, built>>

\* Popen raises (OSError): outside the try, raised to the caller.
PopenFails ==
    /\ pc = "popen"
    /\ pc' = "raised"
    /\ fault' = "popen"
    /\ UNCHANGED <<otherVars, capture, db, txn, cur_filter, calls, out, crashed,
                   db_req_rows, db_resp_rows, built>>

ReqRecord(p, e) ==
    [frame_num |-> p.frame_num, header |-> e.header, file_data |-> e.file_data,
     full_uri |-> p.full_uri, time_epoch |-> p.time_epoch]

RespRecord(p, e) ==
    [frame_num |-> p.frame_num, header |-> e.header, file_data |-> e.file_data,
     time_epoch |-> p.time_epoch, request_in |-> p.request_in]

\* The two batch inserts at the end of the loop body.  wfail names the
\* executemany that raises if it is reached ("none": neither); the inner
\* except swallows it and the rows stay buffered.
LoopBatch(reqs, resps, tx, wfail) ==
    LET reqDone  == Len(reqs) >= BATCH_SIZE /\ wfail # "req"
        reqStop  == Len(reqs) >= BATCH_SIZE /\ wfail = "req"
        respDone == Len(resps) >= BATCH_SIZE /\ ~reqStop /\ wfail # "resp"
    IN  [req  |-> IF reqDone THEN <<>> ELSE reqs,
         resp |-> IF respDone THEN <<>> ELSE resps,
         tx   |-> [tx EXCEPT
                     !.requests  = IF reqDone THEN Upsert(@, reqs) ELSE @,
                     !.responses = IF respDone THEN Upsert(@, resps) ELSE @],
         hung |-> FALSE]

\* e is extract_http_file_data(full_request): the row is appended to the
\* buffer of its kind.
LoopExtracted(row, p, e, reqs, resps, tx, wfail) ==
    IF e.status = "diverge"
    THEN [req |-> reqs, resp |-> resps, tx |-> tx, hung |-> TRUE]
    ELSE IF row[1] # <<>>
    THEN LoopBatch(reqs, Append(resps, RespRecord(p, e)), tx, wfail)
    ELSE LoopBatch(Append(reqs, ReqRecord(p, e)), resps, tx, wfail)

\* p is parse_packet_data(row).
LoopParsed(row, p, reqs, resps, tx, wfail) ==
    IF ~p.ok THEN [req |-> reqs, resp |-> resps, tx |-> tx, hung |-> FALSE]
    ELSE IF p.full_request = <<>>
    THEN [req |-> reqs, resp |-> resps, tx |-> tx, hung |-> FALSE]
    ELSE LoopExtracted(row, p, extract_http_file_data(p.full_request),
                       reqs, resps, tx, wfail)

\* The body of "for row in reader", its inner try/except included.
LoopBody(row, reqs, resps, tx, wfail) ==
    IF row = <<>> THEN [req |-> reqs, resp |-> resps, tx |-> tx, hung |-> FALSE]
    ELSE LoopParsed(row, parse_packet_data(row), reqs, resps, tx, wfail)

\* r is what the loop body made of the buffers and the connection.
AfterRow(r) ==
    /\ db_req_rows' = r.req
    /\ db_resp_rows' = r.resp
    /\ txn' = r.tx
    /\ pc' = IF r.hung THEN "hung" ELSE "stream"

\* The reader yields the tool's next row and the loop body runs on it.
ReadRow(row) ==
    /\ pc = "stream"
    /\ out' = Append(out, row)
    /\ \E wfail \in {"none", "req", "resp"} :
          AfterRow(LoopBody(row, db_req_rows, db_resp_rows, txn, wfail))
    /\ UNCHANGED <<otherVars, capture, db, cur_filter, calls, crashed, fault, built>>

\* The tool closes its stdout: the for loop ends.
EndOfStream ==
    /\ pc = "stream"
    /\ pc' = "flush"
    /\ UNCHANGED <<otherVars, capture, db, txn, cur_filter, calls, out, crashed,
                   db_req_rows, db_resp_rows, fault, built>>

\* The tool dies: its stdout ends there, and the for loop ends as it does
\* at the end of a complete output.  Nothing reads the exit status.
ToolCrash ==
    /\ pc = "stream"
    /\ crashed' = TRUE
    /\ pc' = "flush"
    /\ UNCHANGED <<otherVars, capture, db, txn, cur_filter, calls, out,
                   db_req_rows, db_resp_rows, fault, built>>

\* The reader raises (csv.Error): to the outer except.
ReaderFails ==
    /\ pc = "stream"
    /\ pc' = "except"
    /\ fault' = "reader"
    /\ UNCHANGED <<otherVars, capture, db, txn, cur_filter, calls, out, crashed,
                   db_req_rows, db_resp_rows, built>>

\* The final inserts without the one for the responses.
FinalInsertRequestsOnly ==
    /\ pc = "flush"
    /\ txn' = [txn EXCEPT !.requests = Upsert(@, db_req_rows)]
    /\ pc' = "index"
    /\ UNCHANGED <<otherVars, capture, db, cur_filter, calls, out, crashed,
                   db_req_rows, db_resp_rows, fault, built>>

\* "if db_req_rows: executemany ...; if db_resp_rows: executemany ..."
FinalInsert ==
    /\ pc = "flush"
    /\ txn' = [txn EXCEPT !.requests = Upsert(@, db_req_rows),
                          !.responses = Upsert(@, db_resp_rows)]
    /\ pc' = "index"
    /\ UNCHANGED <<otherVars, capture, db, cur_filter, calls, out, crashed,
                   db_req_rows, db_resp_rows, fault, built>>

\* CREATE INDEX idx_resp_req_in
CreateIndex ==
    /\ pc = "index"
    /\ pc' = "meta"
    /\ UNCHANGED <<otherVars, capture, db, txn, cur_filter, calls, out, crashed,
                   db_req_rows, db_resp_rows, fault, built>>

\* getmtime, getsize and the INSERT INTO meta_info
MetaRow == [filter |-> cur_filter, pcap_mtime |-> capture.mtime,
            pcap_size |-> capture.size]

InsertMeta ==
    /\ pc = "meta"
    /\ txn' = [txn EXCEPT !.meta = Append(@, MetaRow)]
    /\ pc' = "commit"
    /\ UNCHANGED <<otherVars, capture, db, cur_filter, calls, out, crashed,
                   db_req_rows, db_resp_rows, fault, built>>

\* conn.commit(), the end of the with block, the finally clause and the
\* return of db_path.
Commit ==
    /\ pc = "commit"
    /\ db' = [db EXCEPT !.requests = txn.requests, !.responses = txn.responses,
                        !.meta = txn.meta]
    /\ txn' = NoTxn
    /\ built' = [ok |-> TRUE, filter |-> cur_filter, mtime |-> capture.mtime,
                 size |-> capture.size]
    /\ pc' = "returned"
    /\ UNCHANGED <<otherVars, capture, cur_filter, calls, out, crashed,
                   db_req_rows, db_resp_rows, fault>>

\* A statement of the final stage raises (a write, the index, the metadata
\* row or the commit): to the outer except.
FinalStageFails ==
    /\ pc \in {"flush", "index", "meta", "commit"}
    /\ fault' = pc
    /\ pc' = "except"
    /\ UNCHANGED <<otherVars, capture, db, txn, cur_filter, calls, out, crashed,
                   db_req_rows, db_resp_rows, built>>

\* The with block's exit committing what the connection holds.
AfterExceptionCommits(store, tx) ==
    [store EXCEPT !.requests = tx.requests, !.responses = tx.responses,
                  !.meta = tx.meta]

\* What the with block's exit does to the store when the body raised: the
\* open transaction is rolled back.
AfterException(store, tx) == store

\* The exception leaves the with block (rollback), "except Exception" logs
\* it and ends the tool; _stream_tshark_to_db returns normally and
\* get_json_data returns db_path.
ExceptReturns ==
    /\ pc = "except"
    /\ db' = AfterException(db, txn)
    /\ txn' = NoTxn
    /\ pc' = "returned"
    /\ UNCHANGED <<otherVars, capture, cur_filter, calls, out, crashed,
                   db_req_rows, db_resp_rows, fault, built>>

\* The tool's next row under the caching specification.
NextToolRows ==
    IF Len(out) < Len(ToolOutput(cur_filter))
    THEN {ToolOutput(cur_filter)[Len(out) + 1]} ELSE {}

ToolDone == Len(out) = Len(ToolOutput(cur_filter))

Next ==
    \/ CaptureChanges
    \/ \E f \in Filters : Call(f)
    \/ CacheHit
    \/ CacheMiss
    \/ RemoveOld
    \/ RemoveFails
    \/ CreateSchema
    \/ SchemaFails
    \/ Popen
    \/ PopenFails
    \/ \E row \in NextToolRows : ReadRow(row)
    \/ (ToolDone /\ EndOfStream)
    \/ (~ToolDone /\ ToolCrash)
    \/ ReaderFails
    \/ FinalInsert
    \/ CreateIndex
    \/ InsertMeta
    \/ Commit
    \/ FinalStageFails
    \/ ExceptReturns

Spec == Init /\ [][Next]_vars

(***************************************************************************)
(* One ingest into an absent store, the tool writing any rows of the       *)
(* catalog (at most MaxLines) and ending or dying anywhere.                *)
(***************************************************************************)
NextIngest ==
    \/ (calls = 0 /\ Call("http"))
    \/ CacheMiss
    \/ RemoveOld
    \/ CreateSchema
    \/ SchemaFails
    \/ Popen
    \/ PopenFails
    \/ (Len(out) < MaxLines /\ \E row \in Catalog(Len(out) + 1) : ReadRow(row))
    \/ EndOfStream
    \/ ToolCrash
    \/ ReaderFails
    \/ FinalInsert
    \/ CreateIndex
    \/ InsertMeta
    \/ Commit
    \/ FinalStageFails
    \/ ExceptReturns

SpecIngest == Init /\ [][NextIngest]_vars

(***************************************************************************)
(* The chunked-decoding round trip: a body is cut into chunks and written  *)
(* in the chunked transfer encoding, then dechunk_http_response runs on    *)
(* the result one iteration of its loop at a time.                         *)
(***************************************************************************)
\* Bodies of at most MaxBodyLen bytes are tried in full.
MaxBodyLen == 3

\* CR, LF, "0", "a": the bytes a chunked decoder gives a meaning to.
DechunkBytes == {CR, LF, 48, 97}

SeqsUpTo(S, n) == UNION {[1..k -> S] : k \in 0..n}

\* A body long enough for chunk sizes of two hexadecimal digits.
LongBody == [i \in 1..17 |-> IF i % 2 = 0 THEN LF ELSE 97]

Bodies == SeqsUpTo(DechunkBytes, MaxBodyLen) \cup {LongBody}

\* format(n, "x")
RECURSIVE ToHex(_)
ToHex(n) == IF n < 16 THEN <<HexChar(n)>> ELSE ToHex(n \div 16) \o <<HexChar(n % 16)>>

\* One chunk on the wire: size in hexadecimal, CRLF, data, CRLF.
ChunkOnWire(data) == ToHex(Len(data)) \o <<CR, LF>> \o data \o <<CR, LF>>

\* "0\r\n\r\n"
LastChunk == <<48, CR, LF, CR, LF>>

\* Short bodies are cut in every way; of the long body's cuts, those with a
\* chunk of 16 bytes or more.
AllowedCut(rest, n) ==
    /\ n \in 1..Len(rest)
    /\ Len(rest) <= MaxBodyLen \/ n >= 16 \/ Len(rest) - n >= 16

InitDechunk ==
    /\ InitIngest /\ ExtractIdle /\ SplitIdle /\ UpsertIdle
    /\ dk_pc = "encode"
    /\ dk_body \in Bodies
    /\ dk_rest = dk_body
    /\ dk_data = <<>>
    /\ dk_cursor = 0
    /\ dk_chunks = <<>>

\* The next n bytes of the body go out as one chunk.
EncodeChunk(n) ==
    /\ dk_pc = "encode"
    /\ AllowedCut(dk_rest, n)
    /\ dk_data' = dk_data \o ChunkOnWire(SubSeq(dk_rest, 1, n))
    /\ dk_rest' = SubSeq(dk_rest, n + 1, Len(dk_rest))
    /\ UNCHANGED <<ingestVars, upsertVars, extractVars, splitVars, dk_pc, dk_body,
                   dk_cursor, dk_chunks>>

\* The body is out: the zero-size chunk ends the encoding.
EncodeEnd ==
    /\ dk_pc = "encode"
    /\ dk_rest = <<>>
    /\ dk_data' = dk_data \o LastChunk
    /\ dk_pc' = "encoded"
    /\ UNCHANGED <<ingestVars, upsertVars, extractVars, splitVars, dk_body, dk_rest,
                   dk_cursor, dk_chunks>>

\* dechunk_http_response(file_data) up to its while loop.
DechunkCall ==
    /\ dk_pc = "encoded"
    /\ dk_cursor' = 0
    /\ dk_chunks' = <<>>
    /\ dk_pc' = IF dk_data = <<>> THEN "done" ELSE "loop"
    /\ UNCHANGED <<ingestVars, upsertVars, extractVars, splitVars, dk_body, dk_rest, dk_data>>

\* st is what one iteration of the loop did.
DechunkIterated(st) ==
    /\ dk_pc' = IF st.tag = "raise" THEN "raised"
                ELSE IF st.tag = "break" THEN "done" ELSE "loop"
    /\ dk_chunks' = IF st.tag = "raise" THEN dk_chunks ELSE dk_chunks \o st.piece
    /\ dk_cursor' = st.cursor

\* The test of the while loop and, if it holds, one iteration; if not, the
\* join and the return.
DechunkIterate ==
    /\ dk_pc = "loop"
    /\ IF dk_cursor < Len(dk_data)
       THEN DechunkIterated(DechunkStep(dk_data, dk_cursor))
       ELSE dk_pc' = "done" /\ UNCHANGED <<dk_cursor, dk_chunks>>
    /\ UNCHANGED <<ingestVars, upsertVars, extractVars, splitVars, dk_body, dk_rest, dk_data>>

NextDechunk ==
    \/ \E n \in 1..Len(dk_rest) : EncodeChunk(n)
    \/ EncodeEnd
    \/ DechunkCall
    \/ DechunkIterate

SpecDechunk == InitDechunk /\ [][NextDechunk]_vars

(***************************************************************************)
(* dechunk_http_response on bodies as they come off the wire: every        *)
(* sequence of at most MaxWireLen bytes over WireBytes, and chunked bodies *)
(* whose size line carries a chunk extension.                              *)
(***************************************************************************)
MaxWireLen == 4

\* LF, "+", "-", "0", "3", ";", "x"
WireBytes == {LF, 43, 45, 48, 51, 59, 120}

\* One chunk with the extension ";x" on its size line, then the last chunk.
ExtensionWire(data) ==
    ToHex(Len(data)) \o <<59, 120, CR, LF>> \o data \o <<CR, LF>> \o LastChunk

ExtensionBodies == SeqsUpTo({97, LF}, 2) \ {<<>>}

Wires == SeqsUpTo(WireBytes, MaxWireLen) \cup {ExtensionWire(d) : d \in ExtensionBodies}

InitDecode ==
    /\ InitIngest /\ ExtractIdle /\ SplitIdle /\ UpsertIdle
    /\ dk_pc = "encoded"
    /\ dk_body = <<>>
    /\ dk_rest = <<>>
    /\ dk_data \in Wires
    /\ dk_cursor = 0
    /\ dk_chunks = <<>>

NextDecode ==
    \/ DechunkCall
    \/ DechunkIterate

SpecDecode == InitDecode /\ [][NextDecode]_vars

(***************************************************************************)
(* extract_http_file_data on the payloads of at most MaxPayloadLen bytes   *)
(* over ExtractBytes, hex-encoded as the tool writes them.                 *)
(***************************************************************************)
MaxPayloadLen == 4

\* CR, LF, "0", "1", "q", the two bytes of the gzip magic number and the
\* byte 1 (the trailer of a one-byte gzip stream of the model).
ExtractBytes == {CR, LF, 48, 49, 113, GZ1, GZ2, 1}

InitExtract ==
    /\ InitIngest /\ DechunkIdle /\ SplitIdle /\ UpsertIdle
    /\ ex_pc = "input"
    /\ ex_raw = <<>>
    /\ ex_out = [status |-> "ok", header |-> <<>>, file_data |-> <<>>]

\* CR, LF and "q": payloads of these bytes alone are tried two bytes
\* longer, so that LF LF can come before CRLF CRLF in a payload.
BoundaryBytes == {CR, LF, 113}

\* The payload grows by one byte.
AppendByte(b) ==
    /\ ex_pc = "input"
    /\ \/ Len(ex_raw) < MaxPayloadLen
       \/ /\ Len(ex_raw) < MaxPayloadLen + 2
          /\ b \in BoundaryBytes
          /\ \A i \in 1..Len(ex_raw) : ex_raw[i] \in BoundaryBytes
    /\ ex_raw' = Append(ex_raw, b)
    /\ UNCHANGED <<ingestVars, upsertVars, dechunkVars, splitVars, ex_pc, ex_out>>

\* r is extract_http_file_data(full_request).
Extracted(r) ==
    /\ ex_out' = r
    /\ ex_pc' = IF r.status = "diverge" THEN "hung" ELSE "extracted"

Extract ==
    /\ ex_pc = "input"
    /\ Extracted(extract_http_file_data(hexlify(ex_raw)))
    /\ UNCHANGED <<ingestVars, upsertVars, dechunkVars, splitVars, ex_raw>>

NextExtract ==
    \/ \E b \in ExtractBytes : AppendByte(b)
    \/ Extract

SpecExtract == InitExtract /\ [][NextExtract]_vars

(***************************************************************************)
(* PcapSplitter.split.  A packet is [id, kind, src, dst, sport, dport,     *)
(* len]: id is its position in the capture, kind is "tcp4" for an Ethernet *)
(* frame with an IPv4 packet with a TCP segment, "other" for a frame dpkt  *)
(* parses as anything else, "broken" for one whose parsing raises.         *)
(* Addresses are numbers ordered as the 4-byte strings are.                *)
(***************************************************************************)
\* Packets in the capture, at most.
MaxPackets == 3
\* default_chunks takes the values 1..MaxChunks.
MaxChunks == 3

\* 1024 * 1024 bytes to the megabyte in the source; 2 here.
BytesPerMB == 2
\* threshold_mb, 10 by default in the source.
ThresholdMB == 1

Pkt(id, kind, src, dst, sport, dport, len) ==
    [id |-> id, kind |-> kind, src |-> src, dst |-> dst, sport |-> sport,
     dport |-> dport, len |-> len]

\* The packets the capture may hold at position id: three flows between
\* (1, port 2), (2, port 1) and (1, port 1), one of them in both directions,
\* of one or two bytes, and packets that are not IPv4 with TCP.
PacketsAt(id) ==
    {Pkt(id, "tcp4", 1, 2, 2, 1, n) : n \in 1..2} \cup
    {Pkt(id, "tcp4", 2, 1, 1, 2, 1)} \cup
    {Pkt(id, "tcp4", 1, 1, 2, 1, n) : n \in 1..2} \cup
    {Pkt(id, "tcp4", 2, 1, 1, 1, 1)} \cup
    {Pkt(id, "other", 0, 0, 0, 0, 1), Pkt(id, "broken", 0, 0, 0, 0, 1)}

\* key1 < key2 on tuples: the first position where they differ decides.
TupleLess(a, b) ==
    \E i \in 1..Len(a) :
       /\ \A j \in 1..(i - 1) : a[j] = b[j]
       /\ a[i] < b[i]

\* The key as the packet's own (src, dst, sport, dport), whatever the direction.
get_stream_key_directed(p) == <<p.src, p.dst, p.sport, p.dport>>

get_stream_key(p) ==
    IF TupleLess(<<p.src, p.dst, p.sport, p.dport>>, <<p.dst, p.src, p.dport, p.sport>>)
    THEN <<p.src, p.dst, p.sport, p.dport>>
    ELSE <<p.dst, p.src, p.dport, p.sport>>

\* streams[key] = [p]: what was there is lost.
AppendToStreamOverwrites(strs, key, p) ==
    [k \in DOMAIN strs \cup {key} |-> IF k = key THEN <<p>> ELSE strs[k]]

\* streams[key].append((ts, buf)) on the defaultdict
AppendToStream(strs, key, p) ==
    [k \in DOMAIN strs \cup {key} |->
        IF k = key THEN (IF key \in DOMAIN strs THEN Append(strs[key], p) ELSE <<p>>)
        ELSE strs[k]]

\* stream_sizes[key] += len(buf): a new key goes to the end of the dict.
AddSize(sizes, key, n) ==
    IF \E i \in 1..Len(sizes) : sizes[i][1] = key
    THEN [i \in 1..Len(sizes) |->
             IF sizes[i][1] = key THEN <<key, sizes[i][2] + n>> ELSE sizes[i]]
    ELSE Append(sizes, <<key, n>>)

\* Where x goes in a list already sorted: after everything that does not
\* come after it (list.sort and sorted are stable).
RECURSIVE InsertBySizeDesc(_, _)
InsertBySizeDesc(sorted, x) ==
    IF sorted = <<>> THEN <<x>>
    ELSE IF sorted[1][2] >= x[2] THEN <<sorted[1]>> \o InsertBySizeDesc(Tail(sorted), x)
    ELSE <<x>> \o sorted

\* sorted(stream_sizes.items(), key=lambda item: item[1], reverse=True)
RECURSIVE SortedBySizeDesc(_, _)
SortedBySizeDesc(items, acc) ==
    IF items = <<>> THEN acc
    ELSE SortedBySizeDesc(Tail(items), InsertBySizeDesc(acc, items[1]))

RECURSIVE InsertBucketBySize(_, _)
InsertBucketBySize(sorted, x) ==
    IF sorted = <<>> THEN <<x>>
    ELSE IF sorted[1].size <= x.size THEN <<sorted[1]>> \o InsertBucketBySize(Tail(sorted), x)
    ELSE <<x>> \o sorted

\* buckets.sort(key=lambda x: x[0])
RECURSIVE BucketsBySize(_, _)
BucketsBySize(bs, acc) ==
    IF bs = <<>> THEN acc
    ELSE BucketsBySize(Tail(bs), InsertBucketBySize(acc, bs[1]))

RECURSIVE InsertBucketByIndex(_, _)
InsertBucketByIndex(sorted, x) ==
    IF sorted = <<>> THEN <<x>>
    ELSE IF sorted[1].index <= x.index THEN <<sorted[1]>> \o InsertBucketByIndex(Tail(sorted), x)
    ELSE <<x>> \o sorted

\* buckets.sort(key=lambda x: x[1])
RECURSIVE BucketsByIndex(_, _)
BucketsByIndex(bs, acc) ==
    IF bs = <<>> THEN acc
    ELSE BucketsByIndex(Tail(bs), InsertBucketByIndex(acc, bs[1]))

\* The stream added to the last bucket of the sorted list, the fullest.
AddToLargest(bs, item) ==
    [i \in 1..Len(bs) |->
        IF i = Len(bs) THEN [bs[i] EXCEPT !.size = @ + item[2], !.keys = Append(@, item[1])]
        ELSE bs[i]]

\* smallest_bucket[0] += size; smallest_bucket[2].append(key), on the
\* list just sorted.
AddToSmallest(bs, item) ==
    [i \in 1..Len(bs) |->
        IF i = 1 THEN [bs[1] EXCEPT !.size = @ + item[2], !.keys = Append(@, item[1])]
        ELSE bs[i]]

\* The packets written to one batch file: stream after stream.
RECURSIVE BatchPackets(_, _)
BatchPackets(batch_keys, strs) ==
    IF batch_keys = <<>> THEN <<>>
    ELSE strs[batch_keys[1]] \o BatchPackets(Tail(batch_keys), strs)

InitSplit ==
    /\ InitIngest /\ DechunkIdle /\ ExtractIdle /\ UpsertIdle
    /\ SplitIdle

\* The paths split returns: self.pcap_file, and batch_<i>.pcap in the output
\* directory.
PcapFile == <<"pcap_file">>

BatchFile(i) == <<"batch", i>>

\* split with the threshold test written "<=".
SplitCallInclusive(file_size, default_chunks) ==
    /\ sp_pc = "idle"
    /\ sp_size' = file_size
    /\ sp_chunks' = default_chunks
    /\ IF file_size <= ThresholdMB * BytesPerMB
       THEN sp_pc' = "done" /\ generated_files' = <<PcapFile>>
       ELSE sp_pc' = "read" /\ generated_files' = <<>>
    /\ UNCHANGED <<ingestVars, upsertVars, dechunkVars, extractVars, packets, streams,
                   stream_sizes, sorted_streams, buckets, files>>

\* split(threshold_mb, default_chunks) on a capture file that exists, up to
\* the reader: a file below the threshold is returned as it is.
SplitCall(file_size, default_chunks) ==
    /\ sp_pc = "idle"
    /\ sp_size' = file_size
    /\ sp_chunks' = default_chunks
    /\ IF file_size < ThresholdMB * BytesPerMB
       THEN sp_pc' = "done" /\ generated_files' = <<PcapFile>>
       ELSE sp_pc' = "read" /\ generated_files' = <<>>
    /\ UNCHANGED <<ingestVars, upsertVars, dechunkVars, extractVars, packets, streams,
                   stream_sizes, sorted_streams, buckets, files>>

\* One round of "for ts, buf in reader".
ReadPacket(p) ==
    /\ sp_pc = "read"
    /\ Len(packets) < MaxPackets
    /\ packets' = Append(packets, p)
    /\ IF p.kind = "tcp4"
       THEN /\ streams' = AppendToStream(streams, get_stream_key(p), p)
            /\ stream_sizes' = AddSize(stream_sizes, get_stream_key(p), p.len)
       ELSE UNCHANGED <<streams, stream_sizes>>
    /\ UNCHANGED <<ingestVars, upsertVars, dechunkVars, extractVars, sp_pc, sp_size, sp_chunks,
                   sorted_streams, buckets, files, generated_files>>

\* The capture is read: no stream, return []; else sort the streams and
\* make the buckets.
EndOfCapture ==
    /\ sp_pc = "read"
    /\ IF stream_sizes = <<>>
       THEN /\ sp_pc' = "done"
            /\ UNCHANGED <<sorted_streams, buckets>>
       ELSE /\ sp_pc' = "assign"
            /\ sorted_streams' = SortedBySizeDesc(stream_sizes, <<>>)
            /\ buckets' = [i \in 1..Min(sp_chunks, Len(stream_sizes)) |->
                              [size |-> 0, index |-> i - 1, keys |-> <<>>]]
    /\ UNCHANGED <<ingestVars, upsertVars, dechunkVars, extractVars, sp_size, sp_chunks, packets,
                   streams, stream_sizes, files, generated_files>>

\* One round of "for key, size in sorted_streams".
AssignStream ==
    /\ sp_pc = "assign"
    /\ sorted_streams # <<>>
    /\ buckets' = AddToSmallest(BucketsBySize(buckets, <<>>), sorted_streams[1])
    /\ sorted_streams' = Tail(sorted_streams)
    /\ UNCHANGED <<ingestVars, upsertVars, dechunkVars, extractVars, sp_pc, sp_size, sp_chunks,
                   packets, streams, stream_sizes, files, generated_files>>

\* Every stream has its bucket: the buckets are put in index order.
SortBuckets ==
    /\ sp_pc = "assign"
    /\ sorted_streams = <<>>
    /\ buckets' = BucketsByIndex(buckets, <<>>)
    /\ sp_pc' = "write"
    /\ UNCHANGED <<ingestVars, upsertVars, dechunkVars, extractVars, sp_size, sp_chunks, packets,
                   streams, stream_sizes, sorted_streams, files, generated_files>>

\* One round of "for size, i, batch_keys in buckets": batch_<i>.pcap is
\* written.
WriteBatch ==
    /\ sp_pc = "write"
    /\ Len(files) < Len(buckets)
    /\ files' = Append(files, BatchPackets(buckets[Len(files) + 1].keys, streams))
    /\ generated_files' = Append(generated_files, BatchFile(buckets[Len(files) + 1].index))
    /\ UNCHANGED <<ingestVars, upsertVars, dechunkVars, extractVars, sp_pc, sp_size, sp_chunks,
                   packets, streams, stream_sizes, sorted_streams, buckets>>

\* return generated_files
SplitReturn ==
    /\ sp_pc = "write"
    /\ Len(files) = Len(buckets)
    /\ sp_pc' = "done"
    /\ UNCHANGED <<ingestVars, upsertVars, dechunkVars, extractVars, sp_size, sp_chunks, packets,
                   streams, stream_sizes, sorted_streams, buckets, files,
                   generated_files>>

NextSplit ==
    \/ \E z \in {ThresholdMB * BytesPerMB - 1, ThresholdMB * BytesPerMB} :
          \E c \in 1..MaxChunks : SplitCall(z, c)
    \/ \E p \in PacketsAt(Len(packets) + 1) : ReadPacket(p)
    \/ EndOfCapture
    \/ AssignStream
    \/ SortBuckets
    \/ WriteBatch
    \/ SplitReturn

SpecSplit == InitSplit /\ [][NextSplit]_vars

(***************************************************************************)
(* The two INSERT OR REPLACE statements of _stream_tshark_to_db on their   *)
(* own: any batches of rows, written in any order and any number of times. *)
(* A batch is what a buffer holds when it is written: 1..BATCH_SIZE rows,  *)
(* and nothing in the loop keeps two rows of one frame number apart.       *)
(***************************************************************************)
\* Batches written in one behaviour, at most.
MaxWrites == 3

UpsertFrames == {1, 2}

\* Rows as the loop appends them to db_req_rows.
RequestRows ==
    {ReqRecord([frame_num |-> k, full_uri |-> Uri, time_epoch |-> k],
               [header |-> <<71>>, file_data |-> d]) :
        k \in UpsertFrames, d \in {<<>>, <<113>>}}

\* Rows as the loop appends them to db_resp_rows.
ResponseRows ==
    {RespRecord([frame_num |-> k, time_epoch |-> k, request_in |-> q],
                [header |-> <<72>>, file_data |-> <<>>]) :
        k \in UpsertFrames, q \in {1, 2}}

BatchesOf(rows) == UNION {[1..n -> rows] : n \in 1..BATCH_SIZE}

InitUpsert ==
    /\ InitIngest /\ DechunkIdle /\ ExtractIdle /\ SplitIdle
    /\ UpsertIdle

\* cursor.executemany("INSERT OR REPLACE INTO requests ...", db_req_rows)
WriteRequests(rows) ==
    /\ Len(up_log) < MaxWrites
    /\ up_store' = [up_store EXCEPT !.requests = Upsert(@, rows)]
    /\ up_log' = Append(up_log, [table |-> "requests", rows |-> rows])
    /\ UNCHANGED <<ingestVars, dechunkVars, extractVars, splitVars>>

\* cursor.executemany("INSERT OR REPLACE INTO responses ...", db_resp_rows)
WriteResponses(rows) ==
    /\ Len(up_log) < MaxWrites
    /\ up_store' = [up_store EXCEPT !.responses = Upsert(@, rows)]
    /\ up_log' = Append(up_log, [table |-> "responses", rows |-> rows])
    /\ UNCHANGED <<ingestVars, dechunkVars, extractVars, splitVars>>

NextUpsert ==
    \/ \E rows \in BatchesOf(RequestRows) : WriteRequests(rows)
    \/ \E rows \in BatchesOf(ResponseRows) : WriteResponses(rows)

SpecUpsert == InitUpsert /\ [][NextUpsert]_vars

(***************************************************************************)
(* generate_http_dict_pairs on a store.  A pair is [request, response],    *)
(* each a set with the row in it, empty for None.  SQLite leaves the order *)
(* of the responses joined to one request open; they are taken by frame    *)
(* number here, and nothing below depends on it.                           *)
(***************************************************************************)
MinFrame(rows) == CHOOSE r \in rows : \A o \in rows : r.frame_num <= o.frame_num

\* The rows of a table in ascending order of frame_num.
RECURSIVE ByFrame(_)
ByFrame(rows) ==
    IF rows = {} THEN <<>>
    ELSE <<MinFrame(rows)>> \o ByFrame(rows \ {MinFrame(rows)})

\* ON req.frame_num = resp.request_in
Matches(req, responses) == {r \in responses : r.request_in = req.frame_num}

\* The rows the LEFT JOIN gives for one request: one per matching response,
\* or one with NULLs on the right.
JoinRows(req, matched) ==
    IF matched = <<>> THEN << [request |-> {req}, response |-> {}] >>
    ELSE [i \in 1..Len(matched) |-> [request |-> {req}, response |-> {matched[i]}]]

RECURSIVE LeftJoin(_, _)
LeftJoin(reqs, responses) ==
    IF reqs = <<>> THEN <<>>
    ELSE JoinRows(reqs[1], ByFrame(Matches(reqs[1], responses)))
             \o LeftJoin(Tail(reqs), responses)

\* The second query with the wrong column: WHERE frame_num NOT IN (...).
OrphanResponsesByFrame(store) ==
    {r \in store.responses :
        r.frame_num \notin {q.frame_num : q \in store.requests}}

\* WHERE request_in NOT IN (SELECT frame_num FROM requests)
OrphanResponses(store) ==
    {r \in store.responses :
        r.request_in \notin {q.frame_num : q \in store.requests}}

OrphanPairs(orphans) ==
    [i \in 1..Len(orphans) |-> [request |-> {}, response |-> {orphans[i]}]]

\* status is "raise" on a store file without the tables
\* (sqlite3.OperationalError).
generate_http_dict_pairs(store) ==
    IF store.state = "absent" THEN [status |-> "ok", pairs |-> <<>>]
    ELSE IF store.state # "db" THEN [status |-> "raise", pairs |-> <<>>]
    ELSE [status |-> "ok",
          pairs  |-> LeftJoin(ByFrame(store.requests), store.responses)
                         \o OrphanPairs(ByFrame(OrphanResponses(store)))]

(***************************************************************************)
(* Claims about get_json_data and the cache, checked under Spec.           *)
(***************************************************************************)
StreamFaults == {"reader", "flush", "index", "meta", "commit"}

Abs(x) == IF x < 0 THEN -x ELSE x

\* C1: a call of get_json_data on an existing capture that returns
\* normally returns the path of a finalized store, one whose metadata row
\* is present and valid for the capture and the filter of the call.
C1_ReturnsOnlyFinalizedStore ==
    pc = "returned" => IsCacheValid(db, capture, cur_filter)

\* C2: the validity check is true exactly when the store file exists and
\* is non-empty, holds a metadata row, and that row has the filter asked
\* for, the capture's size and an mtime less than 0.1 s from the capture's;
\* and as long as the store of a committed ingest is on disk, the check is
\* true for exactly the filter of that ingest while the capture's size and
\* mtime (to within 0.1 s) are what they were at that ingest.
C2_CacheValidity ==
    \A f \in Filters :
       /\ IsCacheValid(db, capture, f) <=>
             /\ db.state \notin {"absent", "empty"}
             /\ capture.exists
             /\ Len(db.meta) >= 1
             /\ db.meta[1].filter = f
             /\ db.meta[1].pcap_size = capture.size
             /\ Abs(db.meta[1].pcap_mtime - capture.mtime) < MtimeTolerance
       /\ (built.ok /\ capture.exists) =>
             (IsCacheValid(db, capture, f) <=>
                 /\ f = built.filter
                 /\ capture.size = built.size
                 /\ Abs(capture.mtime - built.mtime) < MtimeTolerance)

\* After a committed ingest the capture's mtime has moved by exactly the
\* tolerance, nothing else has changed, and the check is false.
C2_Witness ==
    /\ built.ok
    /\ capture.exists
    /\ capture.size = built.size
    /\ Abs(capture.mtime - built.mtime) = MtimeTolerance
    /\ ~IsCacheValid(db, capture, built.filter)

\* C7: the metadata row is written last.  While an ingest runs the store
\* on disk has no metadata row, and the connection holds one only once the
\* stream has ended and every buffered record has been written; after an
\* ingest that ended with an exception during streaming or finalizing the
\* store has no metadata row and the validity check is false for it.
C7_MetadataWrittenLast ==
    /\ pc \in {"schema", "popen", "stream", "hung", "flush", "index", "meta",
               "commit", "except"} => db.meta = <<>>
    /\ txn.meta # <<>> =>
          /\ pc = "commit" \/ (pc = "except" /\ fault = "commit")
          /\ \A i \in 1..Len(db_req_rows) : db_req_rows[i] \in txn.requests
          /\ \A i \in 1..Len(db_resp_rows) : db_resp_rows[i] \in txn.responses
    /\ (pc \in {"returned", "idle"} /\ fault \in StreamFaults) =>
          /\ db.meta = <<>>
          /\ \A f \in Filters : ~IsCacheValid(db, capture, f)

\* An ingest failed at its commit, after the metadata row was inserted, and
\* get_json_data has returned.
C7_Witness ==
    /\ pc = "returned"
    /\ fault = "commit"
    /\ db.state = "db"
    /\ out # <<>>

\* C8: when the tool dies during an ingest, the store is left without a
\* metadata row and the validity check is false for it.
C8_CrashLeavesStoreInvalid ==
    (crashed /\ pc = "returned") =>
        /\ db.meta = <<>>
        /\ ~IsCacheValid(db, capture, cur_filter)

(***************************************************************************)
(* Claims about the pairs and about the rows of one ingest, checked under  *)
(* SpecIngest.                                                             *)
(***************************************************************************)
\* A response whose request_in is the frame_num of no request.
TrueOrphans(store) ==
    {r \in store.responses : \A q \in store.requests : q.frame_num # r.request_in}

PairsWithRequest(P, q) == {i \in DOMAIN P : P[i].request = {q}}

PairsWithOrphan(P, r) == {i \in DOMAIN P : P[i].request = {} /\ P[i].response = {r}}

\* C3 as stated: exactly one pair per request row, one more per orphan
\* response, so that the number of pairs is the number of requests plus the
\* number of orphan responses.
C3_OnePairPerRequest ==
    db.state = "db" =>
        /\ \A q \in db.requests :
              Cardinality(PairsWithRequest(generate_http_dict_pairs(db).pairs, q)) = 1
        /\ Len(generate_http_dict_pairs(db).pairs)
              = Cardinality(db.requests) + Cardinality(TrueOrphans(db))

RECURSIVE JoinedCount(_, _)
JoinedCount(reqs, responses) ==
    IF reqs = {} THEN 0
    ELSE LET q == CHOOSE x \in reqs : TRUE
         IN  Max(1, Cardinality(Matches(q, responses)))
                 + JoinedCount(reqs \ {q}, responses)

\* C3, amended: a request row yields one pair per response whose request_in
\* is its frame_num, and one pair with no response when there is none; an
\* orphan response yields one more pair with no request.  The number of
\* pairs is the number of requests plus the number of orphan responses
\* exactly when no request is matched by two responses.
C3_PairsPerRequestAndOrphan ==
    db.state = "db" =>
        /\ generate_http_dict_pairs(db).status = "ok"
        /\ \A q \in db.requests :
              /\ Cardinality(PairsWithRequest(generate_http_dict_pairs(db).pairs, q))
                    = Max(1, Cardinality(Matches(q, db.responses)))
              /\ \A r \in Matches(q, db.responses) :
                    \E i \in PairsWithRequest(generate_http_dict_pairs(db).pairs, q) :
                       generate_http_dict_pairs(db).pairs[i].response = {r}
        /\ \A r \in TrueOrphans(db) :
              Cardinality(PairsWithOrphan(generate_http_dict_pairs(db).pairs, r)) = 1
        /\ Len(generate_http_dict_pairs(db).pairs)
              = JoinedCount(db.requests, db.responses) + Cardinality(TrueOrphans(db))
        /\ (Len(generate_http_dict_pairs(db).pairs)
              = Cardinality(db.requests) + Cardinality(TrueOrphans(db)))
           <=> (\A q \in db.requests : Cardinality(Matches(q, db.responses)) <= 1)

\* A committed store in which one request is named by two responses, and
\* the pairs are more than requests plus orphans.
C3_Witness ==
    /\ pc = "returned"
    /\ db.state = "db"
    /\ \E q \in db.requests : Cardinality(Matches(q, db.responses)) = 2
    /\ Len(generate_http_dict_pairs(db).pairs)
          > Cardinality(db.requests) + Cardinality(TrueOrphans(db))

\* A row with all its fields, numbers that parse and a payload.
WellFormedLine(row) ==
    /\ Len(row) >= 8
    /\ ParseInt10(row[4]).ok
    /\ ParseFloat(row[6]).ok
    /\ row[2] = <<>> \/ ParseInt10(row[2]).ok

PayloadOf(row) ==
    IF row[3] # <<>> THEN row[3] ELSE IF row[5] # <<>> THEN row[5] ELSE row[7]

PayloadBearing(row) == WellFormedLine(row) /\ PayloadOf(row) # <<>>

IsResponseLine(row) == row[1] # <<>>

FrameOf(row) == ParseInt10(row[4]).val

\* The payload is not hexadecimal text.
HexUndecodable(row) == PayloadBearing(row) /\ ~unhexlify(PayloadOf(row)).ok

FramesOf(table) == {r.frame_num : r \in table}

IngestDone == pc = "returned" /\ fault = "none"

\* C9: a line whose payload cannot be decoded from hexadecimal leaves no
\* row with its frame number in requests or responses.
C9_UndecodablePayloadDiscarded ==
    IngestDone =>
        \A i \in 1..Len(out) :
           HexUndecodable(out[i]) =>
              FrameOf(out[i]) \notin FramesOf(db.requests) \cup FramesOf(db.responses)

LinesOfKind(resp) ==
    {i \in 1..Len(out) : PayloadBearing(out[i]) /\ IsResponseLine(out[i]) = resp}

\* C10: when an ingest completes, requests holds exactly one row per
\* well-formed payload-bearing request line and responses one per such
\* response line, under the line's frame number; no record is left in a
\* buffer without being in the store; a malformed or blank line adds no
\* row; and no line makes the ingest end with an exception or hang.
C10_OneRowPerWellFormedLine ==
    /\ IngestDone =>
          /\ FramesOf(db.requests) = {FrameOf(out[i]) : i \in LinesOfKind(FALSE)}
          /\ FramesOf(db.responses) = {FrameOf(out[i]) : i \in LinesOfKind(TRUE)}
          /\ Cardinality(db.requests) = Cardinality(LinesOfKind(FALSE))
          /\ Cardinality(db.responses) = Cardinality(LinesOfKind(TRUE))
          /\ \A i \in 1..Len(db_req_rows) : db_req_rows[i] \in db.requests
          /\ \A i \in 1..Len(db_resp_rows) : db_resp_rows[i] \in db.responses
    /\ pc = "except" => fault \in StreamFaults
    /\ pc # "hung"

\* A completed ingest of three lines: a malformed one between two
\* payload-bearing ones, both of which are in the store.
C10_Witness ==
    /\ IngestDone
    /\ ~crashed
    /\ Len(out) = 3
    /\ PayloadBearing(out[1])
    /\ ~WellFormedLine(out[2])
    /\ PayloadBearing(out[3])
    /\ Cardinality(db.requests) + Cardinality(db.responses) = 2

(***************************************************************************)
(* Claims about the reconstructor, checked under SpecDechunk and           *)
(* SpecExtract.                                                            *)
(***************************************************************************)
\* C5: decoding the chunked encoding of a body gives the body back,
\* whatever the body (empty included) and however it was cut into
\* non-empty chunks; the decoder does not raise on such an encoding.
C5_DechunkRoundTrip ==
    /\ dk_pc # "raised"
    /\ dk_pc = "done" => dk_chunks = dk_body
    /\ dk_pc \in {"encoded", "loop", "done"} =>
          dechunk_http_response(dk_data) = [status |-> "ok", out |-> dk_body]

\* A body of CR, LF and a digit, sent as three chunks of one byte, has been
\* decoded.
C5_Witness ==
    /\ dk_pc = "done"
    /\ dk_body = <<CR, LF, 48>>
    /\ dk_data = ChunkOnWire(<<CR>>) \o ChunkOnWire(<<LF>>) \o ChunkOnWire(<<48>>)
                     \o LastChunk
    /\ dk_chunks = dk_body

\* The bytes after the header/body boundary of the payload.
BodyOf(raw) == split_http_headers(raw)[2]

\* C6 as stated: a body that does not start with the gzip magic number is
\* returned unmodified.
C6_NonGzipBodyUnmodified ==
    (ex_pc = "extracted" /\ ~StartsWithMagic(BodyOf(ex_raw))) =>
        ex_out.file_data = BodyOf(ex_raw)

\* C6, amended: a body that does not start with the gzip magic number is
\* returned unmodified when the chunked decoding of it raises, as it does
\* on every non-empty body without an LF; a body the chunked decoding
\* accepts is returned decoded, and gunzipped if what was decoded is a
\* gzip stream.  The header comes back as it was split off in both cases.
C6_NonGzipBodyUnmodifiedUnlessChunked ==
    (ex_pc = "extracted" /\ ~StartsWithMagic(BodyOf(ex_raw))) =>
        /\ ex_out.header \o BodyOf(ex_raw) = ex_raw
        /\ dechunk_http_response(BodyOf(ex_raw)).status = "raise" =>
              ex_out.file_data = BodyOf(ex_raw)
        /\ (BodyOf(ex_raw) # <<>> /\ \A i \in 1..Len(BodyOf(ex_raw)) : BodyOf(ex_raw)[i] # LF) =>
              ex_out.file_data = BodyOf(ex_raw)
        /\ dechunk_http_response(BodyOf(ex_raw)).status = "ok" =>
              ex_out.file_data = GunzipBestEffort(dechunk_http_response(BodyOf(ex_raw)).out)

\* A payload with a header and the body "q", which is no chunked encoding,
\* has been extracted.
C6_Witness ==
    /\ ex_pc = "extracted"
    /\ ex_raw = <<49, LF, LF, 113>>
    /\ ex_out.file_data = <<113>>

(***************************************************************************)
(* Claims about the splitter, checked under SpecSplit.                     *)
(***************************************************************************)
TcpPackets == {i \in 1..Len(packets) : packets[i].kind = "tcp4"}

\* Where packet i of the capture is in the output files.
PlacesOf(i) ==
    {<<f, k>> \in (1..Len(files)) \X (1..MaxPackets) :
        k <= Len(files[f]) /\ files[f][k] = packets[i]}

RECURSIVE TotalWritten(_)
TotalWritten(fs) == IF fs = <<>> THEN 0 ELSE Len(fs[1]) + TotalWritten(Tail(fs))

SplitDone == sp_pc = "done" /\ sp_size >= ThresholdMB * BytesPerMB

\* C4: when a capture has been split, every IPv4+TCP packet of it is in
\* exactly one place of exactly one output file, nothing else is in the
\* output files, and the files' packet counts add up to the number of
\* IPv4+TCP packets of the capture.
C4_PacketsConserved ==
    SplitDone =>
        /\ \A i \in TcpPackets : Cardinality(PlacesOf(i)) = 1
        /\ \A i \in (1..Len(packets)) \ TcpPackets : PlacesOf(i) = {}
        /\ \A f \in 1..Len(files) : \A k \in 1..Len(files[f]) :
              \E i \in TcpPackets : files[f][k] = packets[i]
        /\ TotalWritten(files) = Cardinality(TcpPackets)
        /\ Len(generated_files) = Len(files)

\* A capture of a two-way flow, a packet that is not TCP and a second flow
\* has been split into two files.
C4_Witness ==
    /\ SplitDone
    /\ Len(packets) = 3
    /\ Len(files) = 2
    /\ \E i, j \in TcpPackets :
          /\ i # j
          /\ get_stream_key(packets[i]) # get_stream_key(packets[j])
    /\ \E i \in 1..Len(packets) : packets[i].kind # "tcp4"

\* C11 as stated: a capture smaller than the threshold, and also one whose
\* size is the threshold (10 MB with a threshold of 10 MB), is returned as
\* the list of the original path alone, with no file written.
C11_UnsplitUpToThreshold ==
    (sp_pc = "done" /\ sp_size <= ThresholdMB * BytesPerMB) =>
        /\ generated_files = <<PcapFile>>
        /\ files = <<>>

\* C11, amended: a capture strictly smaller than the threshold is returned
\* as the list of the original path alone, nothing is read and no file is
\* written; a capture whose size is the threshold or more is split, and
\* what is returned then never holds the original path.
C11_UnsplitBelowThreshold ==
    sp_pc # "idle" =>
        /\ sp_size < ThresholdMB * BytesPerMB =>
              /\ sp_pc = "done"
              /\ generated_files = <<PcapFile>>
              /\ files = <<>>
              /\ packets = <<>>
        /\ sp_size >= ThresholdMB * BytesPerMB =>
              \A i \in 1..Len(generated_files) : generated_files[i] # PcapFile

\* A capture one byte below the threshold has been returned unsplit.
C11_Witness ==
    /\ sp_pc = "done"
    /\ sp_size = ThresholdMB * BytesPerMB - 1
    /\ generated_files = <<PcapFile>>
    /\ files = <<>>

\* sub is in raw at the 1-based position i.
SeqAt(raw, sub, i) ==
    /\ i >= 1
    /\ i + Len(sub) - 1 <= Len(raw)
    /\ SubSeq(raw, i, i + Len(sub) - 1) = sub

Contains(raw, sub) == \E i \in 1..Len(raw) : SeqAt(raw, sub, i)

\* header is raw up to the end of the first sub in raw.
CutAfterFirst(raw, sub, header) ==
    \E i \in 1..Len(raw) :
       /\ SeqAt(raw, sub, i)
       /\ \A j \in 1..(i - 1) : ~SeqAt(raw, sub, j)
       /\ header = SubSeq(raw, 1, i + Len(sub) - 1)

\* C12: the header that extraction returns ends after the first CRLF CRLF
\* of the payload; if the payload has none, after its first LF LF; if it
\* has neither, the header is empty.  In every case the header followed by
\* the body is the payload.
C12_HeaderBodySplit ==
    ex_pc = "extracted" =>
        /\ ex_out.header = split_http_headers(ex_raw)[1]
        /\ ex_out.header \o split_http_headers(ex_raw)[2] = ex_raw
        /\ IF Contains(ex_raw, <<CR, LF, CR, LF>>)
           THEN CutAfterFirst(ex_raw, <<CR, LF, CR, LF>>, ex_out.header)
           ELSE IF Contains(ex_raw, <<LF, LF>>)
           THEN CutAfterFirst(ex_raw, <<LF, LF>>, ex_out.header)
           ELSE ex_out.header = <<>>

\* A payload with LF LF before CRLF CRLF has been split after the CRLF CRLF.
C12_Witness ==
    /\ ex_pc = "extracted"
    /\ ex_raw = <<LF, LF, CR, LF, CR, LF>>
    /\ ex_out.header = ex_raw

(***************************************************************************)
(* C14: batches written in any order, any number of times.                 *)
(***************************************************************************)
\* The batches written to a table so far, and their rows in write order.
BatchesWritten(table) ==
    {up_log[i].rows : i \in {j \in 1..Len(up_log) : up_log[j].table = table}}

RECURSIVE RowsInOrder(_, _)
RowsInOrder(log, table) ==
    IF log = <<>> THEN <<>>
    ELSE (IF log[1].table = table THEN log[1].rows ELSE <<>>)
             \o RowsInOrder(Tail(log), table)

\* No frame number carries two different rows.
KeysAgree(rows) ==
    \A i, j \in 1..Len(rows) : rows[i].frame_num = rows[j].frame_num => rows[i] = rows[j]

\* Every batch of the set written once, in one fixed order.
RECURSIVE WriteEach(_, _)
WriteEach(table, batches) ==
    IF batches = {} THEN table
    ELSE WriteEach(Upsert(table, CHOOSE b \in batches : TRUE),
                   batches \ {CHOOSE b \in batches : TRUE})

\* Of the rows written, the last one of every frame number.
LastRows(rows) ==
    {rows[i] : i \in {j \in 1..Len(rows) :
                        \A k \in (j + 1)..Len(rows) : rows[k].frame_num # rows[j].frame_num}}

\* C14 as claimed: the tables depend only on the set of batches written,
\* whatever the order and the repetitions, for any batches at all.
C14_AnyOrderSameStore ==
    /\ up_store.requests = WriteEach({}, BatchesWritten("requests"))
    /\ up_store.responses = WriteEach({}, BatchesWritten("responses"))

TableAsWritten(table, rows, batches) ==
    /\ table = LastRows(rows)
    /\ KeysAgree(rows) => table = WriteEach({}, batches)

\* C14, amended: each table holds, for every frame number written, the row
\* written last; so when no frame number carries two different rows the
\* tables depend only on the set of batches written, whatever the order
\* and the repetitions.
C14_SameStoreWhenKeysAgree ==
    /\ TableAsWritten(up_store.requests, RowsInOrder(up_log, "requests"),
                      BatchesWritten("requests"))
    /\ TableAsWritten(up_store.responses, RowsInOrder(up_log, "responses"),
                      BatchesWritten("responses"))

\* A batch was written, then another one sharing a frame number with it,
\* then the first one again, and no frame number carries two rows.
C14_Witness ==
    /\ Len(up_log) = 3
    /\ up_log[1] = up_log[3]
    /\ up_log[2] # up_log[1]
    /\ up_log[2].table = up_log[1].table
    /\ \E i \in 1..Len(up_log[1].rows), j \in 1..Len(up_log[2].rows) :
           up_log[1].rows[i] = up_log[2].rows[j]
    /\ KeysAgree(RowsInOrder(up_log, up_log[1].table))
    /\ Cardinality(up_store[up_log[1].table]) = 2

(***************************************************************************)
(* C15: the loop of dechunk_http_response ends.                            *)
(***************************************************************************)
\* st is what the iteration entered at cursor did.
LeavesOrAdvances(cursor, st) == st.tag \in {"raise", "break"} \/ st.cursor > cursor

\* C15: every iteration of the chunked-decode loop leaves the loop (break or
\* raised error) or ends with a cursor strictly beyond the one it began
\* with, whatever the size line parses to.
C15_IterationLeavesOrAdvances ==
    (dk_pc = "loop" /\ dk_cursor < Len(dk_data)) =>
        LeavesOrAdvances(dk_cursor, DechunkStep(dk_data, dk_cursor))

(***************************************************************************)
(* C18: chunk extensions.                                                  *)
(***************************************************************************)
\* C18: a chunked body whose size line carries a ';'-delimited extension
\* decodes to its chunk data, as it does without the extension: the call
\* returns, and what it returns is the data of the chunk.
C18_ExtensionStripped ==
    \A d \in ExtensionBodies :
        (dk_data = ExtensionWire(d) /\ dk_pc \in {"done", "raised"}) =>
            /\ dk_pc = "done"
            /\ dk_chunks = d
            /\ dechunk_http_response(ChunkOnWire(d) \o LastChunk).out = d

(***************************************************************************)
(* C16: the two directions of a flow stay together.                        *)
(***************************************************************************)
Tuple4(p) == <<p.src, p.dst, p.sport, p.dport>>

\* q runs between the endpoints of p, in p's direction or the other.
SameFlow(p, q) ==
    \/ Tuple4(q) = Tuple4(p)
    \/ Tuple4(q) = <<p.dst, p.src, p.dport, p.sport>>

\* The buckets (by index) that hold a stream key.
BucketsOf(key) ==
    {buckets[b].index : b \in {c \in 1..Len(buckets) :
        \E k \in 1..Len(buckets[c].keys) : buckets[c].keys[k] = key}}

\* The output files that hold packet i of the capture.
FilesOf(i) == {generated_files[pl[1]] : pl \in PlacesOf(i)}

TogetherInBuckets(p, q) ==
    /\ get_stream_key(p) = get_stream_key(q)
    /\ BucketsOf(get_stream_key(p)) = BucketsOf(get_stream_key(q))
    /\ Cardinality(BucketsOf(get_stream_key(p))) <= 1
    /\ (sp_pc \in {"write", "done"} /\ buckets # <<>>) =>
           Cardinality(BucketsOf(get_stream_key(p))) = 1

\* C16: two IPv4+TCP packets of the capture of which one has the other's
\* (src, dst, sport, dport), or that tuple reversed, have the same stream
\* key and are in the same bucket, and when the capture has been split they
\* are in the same output file, which is the file of that bucket.
C16_FlowStaysTogether ==
    \A i, j \in TcpPackets :
        SameFlow(packets[i], packets[j]) =>
            /\ TogetherInBuckets(packets[i], packets[j])
            /\ SplitDone =>
                  /\ FilesOf(i) = FilesOf(j)
                  /\ FilesOf(i) = {BatchFile(b) : b \in BucketsOf(get_stream_key(packets[i]))}

\* A capture with a flow's packets in both directions and a second flow
\* has been split into two files.
C16_Witness ==
    /\ SplitDone
    /\ Len(files) = 2
    /\ \E i, j \in TcpPackets :
          /\ Tuple4(packets[i]) # Tuple4(packets[j])
          /\ SameFlow(packets[i], packets[j])
          /\ FilesOf(i) = FilesOf(j)
    /\ \E i, j \in TcpPackets : ~SameFlow(packets[i], packets[j])

(***************************************************************************)
(* C17: the buckets are filled as greedy Longest-Processing-Time packing   *)
(* fills them.                                                             *)
(***************************************************************************)
BucketSet(bs) == {bs[i] : i \in 1..Len(bs)}

\* Total bytes of a flow, from stream_sizes.
FlowSize(key) == (CHOOSE e \in BucketSet(stream_sizes) : e[1] = key)[2]

RECURSIVE SumOfFlows(_)
SumOfFlows(keys) == IF keys = <<>> THEN 0 ELSE FlowSize(keys[1]) + SumOfFlows(Tail(keys))

\* The flow x went to bucket old, a smallest one of before, which became new.
WentToSmallest(before, after, x, old, new) ==
    /\ \A c \in before : c.size >= old.size
    /\ new = [size |-> old.size + x[2], index |-> old.index, keys |-> Append(old.keys, x[1])]
    /\ after \ {new} = before \ {old}
    /\ Cardinality(after) = Cardinality(before)

\* One round of the assignment loop took the flow x.
AssignedGreedily(x) ==
    /\ \A r \in 1..Len(sorted_streams) : sorted_streams[r][2] <= x[2]
    /\ \E old \in BucketSet(buckets), new \in BucketSet(buckets') :
           WentToSmallest(BucketSet(buckets), BucketSet(buckets'), x, old, new)

\* The whole loop on the buckets bs and the flows in the order given.
RECURSIVE AssignAll(_, _)
AssignAll(bs, flows) ==
    IF flows = <<>> THEN bs
    ELSE AssignAll(AddToSmallest(BucketsBySize(bs, <<>>), flows[1]), Tail(flows))

EmptyBuckets(n) == [i \in 1..n |-> [size |-> 0, index |-> i - 1, keys |-> <<>>]]

\* The buckets are those that the flow sizes, in their input order, and the
\* bucket count give, each with the total of its flows.
BucketsFromSizes(bs, sizes, count) ==
    /\ Len(bs) = Min(count, Len(sizes))
    /\ \A b \in BucketSet(bs) : b.size = SumOfFlows(b.keys)
    /\ \A e \in BucketSet(sizes) :
           Cardinality({b \in BucketSet(bs) : \E k \in 1..Len(b.keys) : b.keys[k] = e[1]}) = 1
    /\ BucketSet(bs) =
           BucketSet(AssignAll(EmptyBuckets(Min(count, Len(sizes))),
                               SortedBySizeDesc(sizes, <<>>)))

\* C17: there are min(default_chunks, number of flows) buckets; every
\* round of the assignment takes a flow that is as large as any flow left
\* and adds it, and its size, to a bucket whose total is smallest at that
\* moment, leaving the other buckets alone; and when every flow has its
\* bucket, the buckets are a function of the flow sizes in their input
\* order and of the bucket count.
C17_GreedyLPT ==
    /\ [](sp_pc = "assign" => Len(buckets) = Min(sp_chunks, Len(stream_sizes)))
    /\ []((sp_pc \in {"write", "done"} /\ stream_sizes # <<>>) =>
              BucketsFromSizes(buckets, stream_sizes, sp_chunks))
    /\ [][(sp_pc = "assign" /\ sorted_streams # <<>> /\ sp_pc' = "assign") =>
              AssignedGreedily(sorted_streams[1])]_vars

\* Three flows, one of two bytes and two of one byte, in two buckets: the
\* larger flow has a bucket of its own and the smaller two share the other.
C17_Witness ==
    /\ sp_pc = "done"
    /\ Len(stream_sizes) = 3
    /\ Len(buckets) = 2
    /\ \E i, j \in 1..3 : stream_sizes[i][2] # stream_sizes[j][2]
    /\ \E b \in BucketSet(buckets) : Len(b.keys) = 2 /\ b.size = 2
    /\ \E b \in BucketSet(buckets) : Len(b.keys) = 1 /\ b.size = 2

(***************************************************************************)
(* C19: what later calls do to a finalized store.                          *)
(***************************************************************************)
\* The store on disk is finalized and valid for the capture as it is now,
\* for the filter in its metadata row.
Finalized ==
    /\ db.state = "db"
    /\ db.meta # <<>>
    /\ IsCacheValid(db, capture, db.meta[1].filter)

\* The step leaves the store, and the pairs read from it, as they were.
StoreKept ==
    /\ db' = db
    /\ generate_http_dict_pairs(db') = generate_http_dict_pairs(db)

\* C19 as claimed: while the capture stays as it is, no step of a later
\* call, whatever its filter, changes or removes a finalized store: the
\* pairs read from its path stay those of the ingest that finalized it.
C19_FinalizedStoreNeverChanged ==
    [][(Finalized /\ capture' = capture) => StoreKept]_vars

\* C19, amended: while the capture stays as it is, the only step that
\* changes a finalized store is the removal of the store file by a call
\* whose filter is not the store's; every step of a call with the store's
\* filter, and every other step, leaves the store and its pairs as they
\* were.
C19_FinalizedStoreKeptForItsFilter ==
    [][(Finalized /\ capture' = capture) =>
          IF pc = "remove"
          THEN cur_filter # db.meta[1].filter /\ (db' = AbsentStore \/ StoreKept)
          ELSE StoreKept]_vars

\* A second call with the filter of the store has returned the store that
\* the first call built, without running the tool.
C19_Witness ==
    /\ calls = 2
    /\ pc = "returned"
    /\ Finalized
    /\ cur_filter = db.meta[1].filter
    /\ built.ok
    /\ out = <<>>
    /\ db.requests # {}

====
